---------------------------- MODULE Spec2Model ----------------------------
(***************************************************************************)
(* A model of LemonLoser/SearchEngine, package bplustree:                  *)
(*                                                                         *)
(*   src/src/bplustree/bplustree.go   the B+tree (Insert, Search, find,    *)
(*                                    MemPage.insert, full, parent)        *)
(*   src/src/bplustree/cache.go       the page cache (FetchPage, hash      *)
(*                                    table, free list, dirty list)        *)
(*                                                                         *)
(* The two halves do not call each other in the source, so each has its    *)
(* own specification: Spec and FindSpec drive the tree; FetchSpec,         *)
(* CacheSpec and ConcSpec drive the cache (FetchPage alone; every exported *)
(* method; FetchPage run by several callers at once).                      *)
(*                                                                         *)
(* Reading of the source where it leaves things open:                      *)
(*  - The source has no constructor for BPlusTree and no statement that    *)
(*    writes a page, hm, nPage, PCache.nMax or PCache.nInitPage.  The tree *)
(*    and the cache configuration an operation runs on are therefore       *)
(*    inputs: the zero values Go gives them, and pages and settings as a   *)
(*    caller in the package would hand them over.                          *)
(*  - MemPage.insert stores nothing: storing the cell and splitting the    *)
(*    page are comments in the source (lines 164 and 166).                 *)
(*  - p.cell[i] with i = nCell reads the page's memory past its last cell; *)
(*    what lies there is part of the input.                                *)
(*  - The memory of a PgHdr comes from malloc and only some of its fields  *)
(*    are written before they are read; an unwritten field holds whatever  *)
(*    the allocator left there.  A write through a pointer read from such  *)
(*    a field ends the program or lands in memory that is no PgHdr.        *)
(*  - The source takes no lock: the loads and stores of FetchPage calls    *)
(*    made by several callers interleave one by one.                       *)
(*  - Insert tests "ok != nil" on a bool and "offset != nil" on a number;  *)
(*    they are read as "ok" and "offset != 0".                             *)
(*  - A Go panic ends the program: no operation follows it.  A loop that   *)
(*    never ends is treated the same way.                                  *)
(***************************************************************************)
EXTENDS Integers, Sequences, FiniteSets, TLC

\* ------------------------------------------------------------------ bounds
MaxKey == 4
MaxId == 2
\* the largest ph.nFree among the pages handed to the tree
MaxFree == 10

Keys == 1..MaxKey
Ids == 1..MaxId

\* ------------------------------------------------------- program constants
LEAFPAGE == 0
INTERPAGE == 1
\* the flag the page-header comment gives a leaf page (line 56)
DiskLeafFlag == 2
\* size(Cell): two uint32
CellSize == 8
\* a nil pointer / absent page number
Nil == 0
\* bptree.page after line 126: a MemPage{} that has no header and no page
\* number in hm
NoHdr == -1

VARIABLES
  \* ---- BPlusTree
  hm,        \* bptree.hm: page number -> MemPage
  root,      \* bptree.page, as the page's number in hm (Nil, NoHdr)
  btPages,   \* bptree.nPage (the cache has an nPage of its own)
  panicked,  \* the program has panicked
  inserted,  \* history: the keys of the leaves handed over, and the keys
             \* whose Insert call returned
  last,      \* history: the last tree operation and what it did
  \* ---- PCache
  pCache,    \* the PCache object: nHash, apHash, nPage, nMax, pFree, pDirty,
             \* pDirtyTail, the LRU anchor (lru), iMaxKey
  hdr,       \* the PgHdr objects that exist, by entry number
  clast,     \* history: the last cache operation and what it did
  thr,       \* the callers that run FetchPage side by side: where each one
             \* is in its call (pc), the page it asked for (iKey), its
             \* locals and the values it has loaded
  helperCalls \* history: the calls made so far of the methods FetchPage,
             \* MakeDirty and MakeClean are built from

treeVars == <<hm, root, btPages, inserted, last>>
cacheVars == <<pCache, hdr, clast, thr, helperCalls>>
vars == <<treeVars, cacheVars, panicked>>

\* ------------------------------------------------------------------ pages
\* Cell: key and ptr (the child page of an interior cell, the offset of the
\* payload of a leaf cell).  entrys is the Payload found at that offset.
MkCell(k, ptr) == [key |-> k, ptr |-> ptr, entrys |-> <<>>]
MkPayload(k, off, ids) == [key |-> k, ptr |-> off, entrys |-> ids]

\* PageHeader + the cell index area.  cell is the memory p.cell points at:
\* the nCell cells of the page and the slot that follows them.  right is
\* the right-child slot of the header layout (line 61); PageHeader has no
\* field for it and no statement of the source reads it.
MkPage(flag, pgno, par, nFree, cells, gap) ==
  [flag |-> flag, pgno |-> pgno, parent |-> par, nFree |-> nFree, right |-> Nil,
   nCell |-> Len(cells), cell |-> cells \o <<gap>>]

\* sort.Search(p.ph.nCell, cmp): the smallest index whose cell key is >= key,
\* or one past the last cell (indices are 1-based here).
SortSearch(p, key) ==
  LET hits == {i \in 1..p.nCell : p.cell[i].key >= key}
  IN IF hits = {} THEN p.nCell + 1
     ELSE CHOOSE i \in hits : \A j \in hits : i <= j

\* p.cell[i]: for i past the last cell this is whatever the page's memory
\* holds there.
SlotAt(p, i) == p.cell[i]

\* MemPage.find
find(p, key) ==
  LET i == SortSearch(p, key)
  IN IF p.flag = INTERPAGE
       THEN [ptr |-> SlotAt(p, i).ptr, ok |-> TRUE, slot |-> i]
       ELSE IF i <= p.nCell + 1 /\ SlotAt(p, i).key = key
              THEN [ptr |-> SlotAt(p, i).ptr, ok |-> TRUE, slot |-> i]
              ELSE [ptr |-> Nil, ok |-> FALSE, slot |-> i]

\* a walk over the pages that is longer than this meets a page twice
TreeFuel(pages) == Cardinality(DOMAIN pages) + 1

\* BPlusTree.Search: the loop from curr down.  res is "ok", "panic" (curr is
\* nil or has no header: hm[pgno] of a number that is not in the map; or
\* "no such flag!") or "hang"; offset and pg are the two values it returns
\* (line 145: nil when find says no; line 147: what find read, which is nil
\* as well when the slot holds offset 0); slot: the slot find() read on pg.
RECURSIVE SearchFrom(_, _, _, _)
SearchFrom(pages, curr, key, fuel) ==
  LET stop(res) == [res |-> res, offset |-> Nil, pg |-> Nil, slot |-> 0]
  IN IF curr \notin DOMAIN pages THEN stop("panic")
     ELSE IF fuel = 0 THEN stop("hang")
     ELSE LET p == pages[curr]
              f == find(p, key)
          IN CASE p.flag = LEAFPAGE ->
                    [res |-> "ok", offset |-> IF f.ok THEN f.ptr ELSE Nil, pg |-> curr,
                     slot |-> f.slot]
               [] p.flag = INTERPAGE -> SearchFrom(pages, f.ptr, key, fuel - 1)
               [] OTHER -> stop("panic")

Search(key) == SearchFrom(hm, root, key, TreeFuel(hm))

\* MemPage.parent
parent(p) == p.pgno

\* MemPage.full(data): kind is "Cell" or "PlayLoad".  A Cell offered to a
\* page that is not interior, or a payload offered to a page that is not a
\* leaf, panics.
fullPanics(p, kind) ==
  \/ kind = "Cell" /\ p.flag # INTERPAGE
  \/ kind = "PlayLoad" /\ p.flag # LEAFPAGE

\* lines 201 and 206; size is pl.size
full(p, kind, size) == p.nFree > size + CellSize

\* newpage(), which the source calls and does not define: a page of the
\* same kind under the next page number.
newpage(p, np) == MkPage(p.flag, np + 1, p.parent, 0, <<>>, MkCell(0, Nil))

\* MemPage.insert(data) on page p: ok (line 161), or the new page of line
\* 165 with a key that no statement assigns (nothing reads it).  No page is
\* changed.
insert(p, np, kind, size) ==
  IF fullPanics(p, kind) THEN [panic |-> TRUE, ok |-> FALSE, key |-> 0, newpg |-> Nil]
  ELSE IF ~full(p, kind, size) THEN [panic |-> FALSE, ok |-> TRUE, key |-> 0, newpg |-> Nil]
  ELSE [panic |-> FALSE, ok |-> FALSE, key |-> 0, newpg |-> newpage(p, np).pgno]

\* Lines 123-132: bptree.page becomes a MemPage{} and the first insert into
\* it reads the flag of a header that is not there.
GrowRoot == [root |-> NoHdr, res |-> "panic"]

\* Lines 117-135: the loop that offers the separator to ppg = hm[ppgno], and
\* moves on to hm[ppg.parent()].  res: "split" (line 120), "panic", "hang".
RECURSIVE Propagate(_, _, _, _)
Propagate(rt, ppgno, size, fuel) ==
  IF ppgno \notin DOMAIN hm THEN [root |-> rt, res |-> "panic"]
  ELSE IF fuel = 0 THEN [root |-> rt, res |-> "hang"]
  ELSE LET r == insert(hm[ppgno], btPages, "Cell", size)
       IN IF r.panic THEN [root |-> rt, res |-> "panic"]
          ELSE IF r.ok THEN [root |-> rt, res |-> "split"]
          ELSE IF hm[ppgno].pgno = hm[rt].pgno THEN GrowRoot
          ELSE Propagate(rt, parent(hm[ppgno]), size, fuel - 1)

\* BPlusTree.Insert(pl) with pl = (k, <<id>>): what the call leaves behind.
\* No path of it writes a page, hm or nPage.
\*   res: "noop" (line 107), "fit" (line 112), "split" (line 120), "panic",
\*   "hang"; ppg: the page number line 115 takes as the parent
InsertResult(k, id) ==
  LET s == Search(k)
  IN IF s.res # "ok" THEN [root |-> root, res |-> s.res, ppg |-> Nil]
     ELSE IF s.offset # Nil THEN [root |-> root, res |-> "noop", ppg |-> Nil]
     ELSE LET r == insert(hm[s.pg], btPages, "PlayLoad", 1)
          IN IF r.panic THEN [root |-> root, res |-> "panic", ppg |-> Nil]
             ELSE IF r.ok THEN [root |-> root, res |-> "fit", ppg |-> Nil]
             ELSE Propagate(root, parent(hm[s.pg]), 1, TreeFuel(hm))
                    @@ [ppg |-> parent(hm[s.pg])]

\* Is the page that takes the split path of the call (insert answers false,
\* line 110) the page bptree.page?
RootSplitBy(k) ==
  LET s == Search(k)
  IN /\ s.res = "ok" /\ s.offset = Nil
     /\ hm[s.pg].pgno = hm[root].pgno
     /\ ~fullPanics(hm[s.pg], "PlayLoad")
     /\ full(hm[s.pg], "PlayLoad", 1)

\* ------------------------------------------------------------- page cache
\* The settings of the caches under test.  No statement of the source
\* writes PCache.nMax or PCache.nInitPage: a cache has the zero values, or
\* the values its owner gave the fields before Create.
nInitPage == 2
CacheMax == 3
NumKeys == 2
\* Create's argument
PageSize == 512
\* The cache whose owner also calls Create, InitBulk, AllocPage, FreePage,
\* ResizeHash, RemoveFromHash and ManageDirtyList themselves: its nMax, and
\* the number of such calls in a run.
HelperMax == 2
MaxHelperCalls == 1

\* unsafe.Sizeof(&PgHdr{}): the size of a pointer (line 79)
PtrSize == 8
\* the entries of a slab when nInitPage is not set (line 99)
DefaultBulk == 1024

\* ResizeHash never leaves fewer slots than this
MinHash == 256

\* the page numbers the callers ask for; MinHash + 1 shares page 1's bucket
PageKeys == (1..NumKeys) \cup {MinHash + 1}

\* A second configuration, for ResizeHash: a cache large enough to hold
\* more pages than MinHash, loaded by a scan of every BulkStride-th page
\* that releases nothing.
BulkExtra == 3
BulkStride == 2
BulkMax == MinHash + BulkExtra

\* callers that may be inside FetchPage at the same time, and the calls
\* each of them makes
NumCallers == 2
MaxCalls == 1
Callers == 1..NumCallers
IdleCaller ==
  [pc |-> "idle", iKey |-> 0, pPage |-> Nil, page |-> Nil, h |-> 0, n |-> 0, p |-> 0,
   v |-> Nil, calls |-> 0]

PCACHE_DIRTYLIST_REMOVE == 1
PCACHE_DIRTYLIST_ADD == 2
PCACHE_DIRTYLIST_FRONT == 3

\* addRemove & bit
HasBit(x, bit) == (x \div bit) % 2 = 1

\* What a field of malloc'ed memory holds until a statement writes it: for
\* a number or a pointer Garbage, for the flags Uninit.  The value is
\* settled when the field is first read: the flags as any CLEAN/DIRTY bits,
\* a page number as one of those the callers use or 0, a pointer as nil or
\* as Wild, a pointer that is not nil and points to no PgHdr.
Garbage == -1
Wild == -2
Uninit == {"UNINIT"}

\* A PgHdr as C.malloc leaves it (lines 101 and 185).
MallocHdr ==
  [iKey |-> Garbage, pNext |-> Garbage, isPinned |-> Garbage, flags |-> Uninit,
   pDirtyNext |-> Garbage, pDirtyPrev |-> Garbage, pLruNext |-> Garbage,
   pLruPrev |-> Garbage]

FlagBits == SUBSET {"CLEAN", "DIRTY"}
WildOrNil == {Nil, Wild}
KeysRead == PageKeys \cup {0}

\* the values a read of the field can meet
FlagsRead(S, p) == IF S.h[p].flags = Uninit THEN FlagBits ELSE {S.h[p].flags}
LinkRead(x) == IF x = Garbage THEN WildOrNil ELSE {x}
KeyRead(x) == IF x = Garbage THEN KeysRead ELSE {x}

\* the state once the read has met the value
SettleFlags(S, p, f) == [c |-> S.c, h |-> [S.h EXCEPT ![p].flags = f]]
SettleLinks(S, p, wn, wp) ==
  [c |-> S.c, h |-> [S.h EXCEPT ![p].pDirtyNext = wn, ![p].pDirtyPrev = wp]]
SettleKey(S, p, k) == [c |-> S.c, h |-> [S.h EXCEPT ![p].iKey = k]]

\* The cache state S is [c |-> the PCache fields, h |-> the PgHdr objects].
\* apHash holds the non-nil slots only.
Bucket(c, i) == IF i \in DOMAIN c.apHash THEN c.apHash[i] ELSE Nil

SetBucket(ap, i, e) ==
  IF e = Nil THEN [j \in (DOMAIN ap) \ {i} |-> ap[j]]
  ELSE [j \in (DOMAIN ap) \cup {i} |-> IF j = i THEN e ELSE ap[j]]

Fuel(h) == Cardinality(DOMAIN h) + 1

\* the entries met following pNext from e
RECURSIVE ChainFrom(_, _, _)
ChainFrom(h, e, fuel) ==
  IF e \notin DOMAIN h \/ fuel = 0 THEN <<>>
  ELSE <<e>> \o ChainFrom(h, h[e].pNext, fuel - 1)

IndexIn(seq, e) ==
  LET hits == {i \in 1..Len(seq) : seq[i] = e}
  IN IF hits = {} THEN 0 ELSE CHOOSE i \in hits : \A j \in hits : i <= j

\* FetchPage step 1 (lines 131-134): walk the bucket for iKey.  Each
\* outcome is the entry found (Nil: none; -1: the chain cycles without
\* holding the key, the loop does not end) and the state with the page
\* numbers the walk has read.
RECURSIVE LookupFrom(_, _, _, _)
LookupFrom(S, e, iKey, fuel) ==
  IF e = Nil THEN {[found |-> Nil, s |-> S]}
  ELSE IF fuel = 0 THEN {[found |-> -1, s |-> S]}
  ELSE UNION {LET S1 == SettleKey(S, e, k)
              IN IF k = iKey THEN {[found |-> e, s |-> S1]}
                 ELSE LookupFrom(S1, S.h[e].pNext, iKey, fuel - 1) : k \in KeyRead(S.h[e].iKey)}

Lookup(S, iKey) == LookupFrom(S, Bucket(S.c, iKey % S.c.nHash), iKey, Fuel(S.h))

MaxOf(set) == CHOOSE x \in set : \A y \in set : y <= x

\* PCache.ResizeHash, the inner loop (lines 219-226) from pCurPg on: the
\* entry becomes the head of its new slot, the walk goes on to its pNext,
\* and then its pNext is set to the head before it.  st is [ap |-> apNew,
\* h |-> the PgHdr objects, hang |-> the loop did not end].
RECURSIVE MoveChain(_, _, _, _)
MoveChain(st, pCurPg, nNew, fuel) ==
  IF pCurPg = Nil THEN st
  ELSE IF fuel = 0 THEN [st EXCEPT !.hang = TRUE]
  ELSE LET slot == st.h[pCurPg].iKey % nNew
           pNewPg == IF slot \in DOMAIN st.ap THEN st.ap[slot] ELSE Nil
       IN MoveChain([st EXCEPT !.ap = SetBucket(st.ap, slot, pCurPg),
                               !.h = [st.h EXCEPT ![pCurPg].pNext = pNewPg]],
                    st.h[pCurPg].pNext, nNew, fuel - 1)

\* the outer loop (line 217) over the old slots lo..hi, in index order
RECURSIVE MoveSlots(_, _, _, _, _)
MoveSlots(st, old, lo, hi, nNew) ==
  IF lo > hi THEN st
  ELSE IF lo = hi
    THEN MoveChain(st, IF lo \in DOMAIN old THEN old[lo] ELSE Nil, nNew,
                   (Cardinality(DOMAIN st.h) + 1) * (Cardinality(DOMAIN st.h) + 1))
  ELSE LET mid == (lo + hi) \div 2
           half == MoveSlots(st, old, lo, mid, nNew)
       IN IF half.hang THEN half ELSE MoveSlots(half, old, mid + 1, hi, nNew)

NewHashSize(c) == IF c.nHash * 2 < MinHash THEN MinHash ELSE c.nHash * 2

Rehash(S) ==
  MoveSlots([ap |-> <<>>, h |-> S.h, hang |-> FALSE], S.c.apHash, 0, S.c.nHash - 1,
            NewHashSize(S.c))

\* ResizeHash that publishes the new size without moving the entries
ResizeHashKeepsSlots(S) ==
  [c |-> [S.c EXCEPT !.nHash = NewHashSize(S.c)], h |-> S.h]

ResizeHash(S) ==
  LET r == Rehash(S)
  IN [c |-> [S.c EXCEPT !.apHash = r.ap, !.nHash = NewHashSize(S.c)], h |-> r.h]

\* The entries ResizeHash reads the page number of: those reached from the
\* slots along pNext.  The outcomes of ResizeHash, one for each reading of
\* the page numbers no statement has written.
Reached(S) ==
  UNION {{ChainFrom(S.h, S.c.apHash[i], Fuel(S.h))[j] :
            j \in 1..Len(ChainFrom(S.h, S.c.apHash[i], Fuel(S.h)))} : i \in DOMAIN S.c.apHash}

Unkeyed(S) == {e \in Reached(S) : S.h[e].iKey = Garbage}

ResizeHashOuts(S) ==
  {LET S0 == [c |-> S.c,
              h |-> [e \in DOMAIN S.h |-> IF e \in DOMAIN g THEN [S.h[e] EXCEPT !.iKey = g[e]]
                                          ELSE S.h[e]]]
   IN [hang |-> Rehash(S0).hang, s |-> IF Rehash(S0).hang THEN S0 ELSE ResizeHash(S0)] :
     g \in [Unkeyed(S) -> KeysRead]}

\* PCache.FreePage
FreePage(S, p) ==
  [c |-> [S.c EXCEPT !.pFree = p], h |-> [S.h EXCEPT ![p].pNext = S.c.pFree]]

\* RemoveFromHash without the unlink of line 248
RemoveFromHashNoUnlink(S, pPage) ==
  IF pPage = Nil THEN [out |-> "panic", s |-> S]
  ELSE [out |-> "ok", s |-> FreePage([c |-> [S.c EXCEPT !.nPage = @ - 1], h |-> S.h], pPage)]

\* PCache.RemoveFromHash.  out is "panic" when the walk dereferences nil
\* (pPage is nil, or its bucket's chain ends before pPage is met), "hang"
\* when the chain cycles without pPage.
RemoveFromHash(S, pPage) ==
  IF pPage = Nil THEN [out |-> "panic", s |-> S]
  ELSE LET slot == S.h[pPage].iKey % S.c.nHash
           chain == ChainFrom(S.h, Bucket(S.c, slot), Fuel(S.h))
           i == IndexIn(chain, pPage)
           next == S.h[pPage].pNext
           unlinked ==
             IF i = 1
               THEN [c |-> [S.c EXCEPT !.apHash = SetBucket(S.c.apHash, slot, next)], h |-> S.h]
               ELSE [c |-> S.c, h |-> [S.h EXCEPT ![chain[i - 1]].pNext = next]]
       IN IF i = 0 THEN [out |-> IF Len(chain) = Fuel(S.h) THEN "hang" ELSE "panic", s |-> S]
          ELSE [out |-> "ok",
                s |-> FreePage([c |-> [unlinked.c EXCEPT !.nPage = @ - 1], h |-> unlinked.h],
                               pPage)]

\* PCache.AllocPage: the head of the free list, else a new object from
\* malloc, of which pBuf and isBulkLocal only are written.
AllocPage(S) ==
  IF S.c.pFree # Nil
    THEN LET page == S.c.pFree
         IN [page |-> page,
             s |-> [c |-> [S.c EXCEPT !.pFree = S.h[page].pNext],
                    h |-> [S.h EXCEPT ![page].pNext = Nil]]]
    ELSE LET page == Cardinality(DOMAIN S.h) + 1
         IN [page |-> page, s |-> [c |-> S.c, h |-> S.h @@ (page :> MallocHdr)]]

\* FetchPage lines 158-171: put pPage into the table under iKey.
Install(S, pPage, iKey) ==
  LET slot == iKey % S.c.nHash
  IN [c |-> [S.c EXCEPT !.nPage = @ + 1,
                        !.apHash = SetBucket(@, slot, pPage),
                        !.iMaxKey = IF iKey > @ THEN iKey ELSE @],
      h |-> [S.h EXCEPT ![pPage].iKey = iKey,
                        ![pPage].pNext = Bucket(S.c, slot),
                        ![pPage].pLruPrev = Nil,
                        ![pPage].pLruNext = Nil,
                        ![pPage].isPinned = 1]]

\* line 147 with the test one page too late
MustRecycleLate(c) == c.nPage > c.nMax

\* FetchPage line 147
MustRecycle(c) == c.nPage + 1 >= c.nMax

\* FetchPage from step 3 on (lines 143-172), S3 being the state after the
\* ResizeHash of step 3 if it ran:
\*   out: "miss", "panic" (a nil dereference), "hang"
\*   recycled: the entry step 4 took out of the table (Nil: none), with the
\*   pin count and page number it had; resized: step 3 ran ResizeHash
FetchPageMiss(S3, iKey, resized) ==
  LET recycle == MustRecycle(S3.c)
      victim == S3.c.lru.pLruPrev
      rm == RemoveFromHash(S3, victim)
      al == AllocPage(S3)
      pPage == IF recycle THEN victim ELSE al.page
      S5 == IF recycle THEN rm.s ELSE al.s
  IN IF recycle /\ rm.out # "ok"
       THEN [s |-> S3, ret |-> Nil, out |-> rm.out, recycled |-> Nil, rpin |-> 0,
             rkey |-> 0, resized |-> resized]
     ELSE [s |-> Install(S5, pPage, iKey), ret |-> pPage, out |-> "miss",
           recycled |-> IF recycle THEN victim ELSE Nil,
           rpin |-> IF recycle THEN S3.h[victim].isPinned ELSE 0,
           rkey |-> IF recycle THEN S3.h[victim].iKey ELSE 0,
           resized |-> resized]

\* PCache.FetchPage(iKey): its outcomes, each the state it leaves, the
\* entry it returns, and out: "hit", "miss", "panic", "hang".
FetchPageResult(S, iKey) ==
  LET none == [recycled |-> Nil, rpin |-> 0, rkey |-> 0, resized |-> FALSE]
  IN UNION {
       IF lk.found = -1 THEN {[s |-> lk.s, ret |-> Nil, out |-> "hang"] @@ none}
       ELSE IF lk.found # Nil THEN {[s |-> lk.s, ret |-> lk.found, out |-> "hit"] @@ none}
       ELSE IF lk.s.c.nPage >= lk.s.c.nHash
         THEN {IF rs.hang
                 THEN [s |-> rs.s, ret |-> Nil, out |-> "hang", recycled |-> Nil, rpin |-> 0,
                       rkey |-> 0, resized |-> TRUE]
                 ELSE FetchPageMiss(rs.s, iKey, TRUE) : rs \in ResizeHashOuts(lk.s)}
       ELSE {FetchPageMiss(lk.s, iKey, FALSE)} : lk \in Lookup(S, iKey)}

\* The unpin of the design text (4.2 Pinning): the count goes down, and at 0
\* the entry is linked at the head of the LRU list.
UnpinOn(S, p) ==
  LET n == S.h[p].isPinned - 1
      first == S.c.lru.pLruNext
      h1 == [S.h EXCEPT ![p].isPinned = n]
      h2 == [h1 EXCEPT ![p].pLruPrev = Nil, ![p].pLruNext = first]
      h3 == IF first # Nil THEN [h2 EXCEPT ![first].pLruPrev = p] ELSE h2
  IN IF n > 0 THEN [c |-> S.c, h |-> h1]
     ELSE [c |-> [S.c EXCEPT !.lru = [pLruNext |-> p,
                                      pLruPrev |-> IF first # Nil THEN @.pLruPrev ELSE p]],
           h |-> h3]

\* PCache.ManageDirtyList, the REMOVE half (lines 262-285) and the ADD half
\* (lines 286-294).  The ADD half writes pDirtyNext and leaves pDirtyPrev as
\* it is.  Lines 270, 275 and 289 write through a pointer each: through
\* Wild the write ends the program there (ok is FALSE, s the state with what
\* was written before), or it lands in memory that is no PgHdr and the call
\* goes on.  lands says of each of the three writes which of the two it
\* does: next for line 270, prev for line 275, head for line 289.
DirtyListRemove(S, pPage, lands) ==
  LET nx == S.h[pPage].pDirtyNext
      pv == S.h[pPage].pDirtyPrev
      S1 == IF nx = Nil THEN [c |-> [S.c EXCEPT !.pDirtyTail = pv], h |-> S.h]
            ELSE IF nx \in DOMAIN S.h
              THEN [c |-> S.c, h |-> [S.h EXCEPT ![nx].pDirtyPrev = pv]]
            ELSE S
      S2 == IF pv = Nil THEN [c |-> [S1.c EXCEPT !.pDirty = nx], h |-> S1.h]
            ELSE IF pv \in DOMAIN S.h
              THEN [c |-> S1.c, h |-> [S1.h EXCEPT ![pv].pDirtyNext = nx]]
            ELSE S1
  IN IF nx \notin (DOMAIN S.h) \cup {Nil} /\ ~lands.next THEN [ok |-> FALSE, s |-> S]
     ELSE IF pv \notin (DOMAIN S.h) \cup {Nil} /\ ~lands.prev THEN [ok |-> FALSE, s |-> S1]
     ELSE [ok |-> TRUE,
           s |-> [c |-> S2.c,
                  h |-> [S2.h EXCEPT ![pPage].pDirtyNext = Nil, ![pPage].pDirtyPrev = Nil]]]

DirtyListAdd(S, pPage, lands) ==
  LET nx == S.c.pDirty
      h1 == [S.h EXCEPT ![pPage].pDirtyNext = nx]
  IN IF nx = Nil
       THEN [ok |-> TRUE,
             s |-> [c |-> [S.c EXCEPT !.pDirtyTail = pPage, !.pDirty = pPage], h |-> h1]]
     ELSE IF nx \in DOMAIN S.h
       THEN [ok |-> TRUE,
             s |-> [c |-> [S.c EXCEPT !.pDirty = pPage],
                    h |-> [h1 EXCEPT ![nx].pDirtyPrev = pPage]]]
     ELSE IF lands.head
       THEN [ok |-> TRUE, s |-> [c |-> [S.c EXCEPT !.pDirty = pPage], h |-> h1]]
     ELSE [ok |-> FALSE, s |-> [c |-> S.c, h |-> h1]]

ManageDirtyList(S, pPage, addRemove, lands) ==
  LET r == IF HasBit(addRemove, PCACHE_DIRTYLIST_REMOVE) THEN DirtyListRemove(S, pPage, lands)
           ELSE [ok |-> TRUE, s |-> S]
  IN IF r.ok /\ HasBit(addRemove, PCACHE_DIRTYLIST_ADD) THEN DirtyListAdd(r.s, pPage, lands)
     ELSE r

\* what the writes of lines 270, 275 and 289 may do, one by one; a write
\* through a pointer to a PgHdr is not asked
Lands == [next : BOOLEAN, prev : BOOLEAN, head : BOOLEAN]

\* The outcomes of ManageDirtyList(pPage, addRemove): the REMOVE half reads
\* both dirty links of pPage.
ManageDirtyListOuts(S, pPage, addRemove) ==
  IF HasBit(addRemove, PCACHE_DIRTYLIST_REMOVE)
    THEN {ManageDirtyList(SettleLinks(S, pPage, wn, wp), pPage, addRemove, lands) :
            wn \in LinkRead(S.h[pPage].pDirtyNext), wp \in LinkRead(S.h[pPage].pDirtyPrev),
            lands \in Lands}
    ELSE {ManageDirtyList(S, pPage, addRemove, lands) : lands \in Lands}

\* p.flags ^= (PGHDR_DIRTY|PGHDR_CLEAN)
FlipDirtyClean(flags) ==
  (flags \ {"DIRTY", "CLEAN"}) \cup ({"DIRTY", "CLEAN"} \ flags)

\* PCache.MakeDirty on flags that have been read.  out is "dirtied", "noop"
\* or "panic".
MakeDirtyOn(S, p) ==
  IF "CLEAN" \in S.h[p].flags
    THEN {[out |-> IF r.ok THEN "dirtied" ELSE "panic", s |-> r.s] :
            r \in ManageDirtyListOuts([c |-> S.c, h |-> [S.h EXCEPT ![p].flags = FlipDirtyClean(@)]],
                                      p, PCACHE_DIRTYLIST_ADD)}
    ELSE {[out |-> "noop", s |-> S]}

MakeDirtyOuts(S, p) == UNION {MakeDirtyOn(SettleFlags(S, p, f), p) : f \in FlagsRead(S, p)}

\* PCache.MakeClean on flags that have been read.  out is "cleaned", "noop"
\* or "panic"; a REMOVE that ended the program has not reached line 315.
MakeCleanOn(S, page) ==
  IF "DIRTY" \in S.h[page].flags
    THEN {IF r.ok
            THEN [out |-> "cleaned",
                  s |-> [c |-> r.s.c,
                         h |-> [r.s.h EXCEPT ![page].flags =
                                  (@ \ {"DIRTY", "NEED_SYNC", "WRITEABLE"}) \cup {"CLEAN"}]]]
            ELSE [out |-> "panic", s |-> r.s] :
            r \in ManageDirtyListOuts(S, page, PCACHE_DIRTYLIST_REMOVE)}
    ELSE {[out |-> "noop", s |-> S]}

MakeCleanOuts(S, page) ==
  UNION {MakeCleanOn(SettleFlags(S, page, f), page) : f \in FlagsRead(S, page)}

\* MakeClean(page) with page Wild, a pointer to memory that is no PgHdr.
\* The read of page.flags ends the program or meets any flag word; with
\* DIRTY in it the REMOVE half reads the two dirty links there (nil, or
\* Wild again), lines 270 and 275 write through them and lines 283-284 and
\* 315-316 write the memory; each of these writes ends the program or
\* lands.  No PgHdr of the cache changes.  out is "panic", "noop", "cleaned", or "kept": done
\* as for "cleaned", but pDirtyPrev was not nil, so that line 281 has not
\* moved pDirty off the page, which is no longer DIRTY.
MakeCleanWild(S) ==
  {[out |-> "panic", s |-> S], [out |-> "noop", s |-> S]}
    \cup UNION {
      LET S1 == IF nx = Nil THEN [c |-> [S.c EXCEPT !.pDirtyTail = pv], h |-> S.h] ELSE S
          S2 == IF pv = Nil THEN [c |-> [S1.c EXCEPT !.pDirty = nx], h |-> S1.h] ELSE S1
      IN (IF pv = Wild THEN {[out |-> "panic", s |-> S1]} ELSE {})
           \cup {[out |-> "panic", s |-> S2],
                 [out |-> IF pv = Nil THEN "cleaned" ELSE "kept", s |-> S2]} :
        nx \in WildOrNil, pv \in WildOrNil}

\* PCache.MakeCleanAll: the loop.  out is "done", "panic" (a read or write
\* through Wild ended the program) or "hang": the loop does not end,
\* because the head of the list is not DIRTY and MakeClean leaves it there.
RECURSIVE MakeCleanAllOn(_, _)
MakeCleanAllOn(S, fuel) ==
  IF S.c.pDirty = Nil THEN {[out |-> "done", s |-> S]}
  ELSE IF fuel = 0 THEN {[out |-> "hang", s |-> S]}
  ELSE UNION {IF r.out = "panic" THEN {r}
              ELSE IF r.out \in {"noop", "kept"} THEN {[out |-> "hang", s |-> r.s]}
              ELSE MakeCleanAllOn(r.s, fuel - 1) :
                r \in IF S.c.pDirty \in DOMAIN S.h THEN MakeCleanOuts(S, S.c.pDirty)
                      ELSE MakeCleanWild(S)}

\* PCache.InitBulk: nBulk entries in malloc'ed memory, each pushed on the
\* free list (pBuf and pNext are written, nothing else).
BulkCount(c) ==
  LET szBulk == IF c.nInitPage > 0 THEN c.szAlloc * c.nInitPage
                ELSE c.szAlloc * DefaultBulk
  IN szBulk \div c.szAlloc

\* the loop of line 104 after n rounds
InitBulkTo(S, n) ==
  LET base == Cardinality(DOMAIN S.h)
  IN [c |-> [S.c EXCEPT !.pFree = IF n > 0 THEN base + n ELSE @],
      h |-> [e \in 1..(base + n) |->
               IF e <= base THEN S.h[e]
               ELSE [MallocHdr EXCEPT !.pNext = IF e = base + 1 THEN S.c.pFree ELSE e - 1]]]

InitBulk(S) == InitBulkTo(S, BulkCount(S.c))

\* Lines 106 and 110 both advance by szAlloc: entry i is written at
\* 2 * i * szAlloc from the start of a slab of nBulk * szAlloc bytes.  The
\* rounds that write past the end of the slab:
SlabOverruns(c) ==
  {i \in 0..(BulkCount(c) - 1) : 2 * i * c.szAlloc >= BulkCount(c) * c.szAlloc}

\* The outcomes of InitBulk: all rounds done, or the program ended by the
\* write of a round past the slab.
InitBulkOuts(S) ==
  {[ok |-> TRUE, s |-> InitBulk(S)]}
    \cup {[ok |-> FALSE, s |-> InitBulkTo(S, i)] : i \in SlabOverruns(S.c)}

\* a PCache none of whose fields has been written
ZeroPCache ==
  [szPage |-> 0, szAlloc |-> 0, nMax |-> 0, nInitPage |-> 0, nHash |-> 0,
   apHash |-> <<>>, nPage |-> 0, pFree |-> Nil, pDirty |-> Nil, pDirtyTail |-> Nil,
   lru |-> [pLruNext |-> Nil, pLruPrev |-> Nil], iMaxKey |-> 0]

\* PCache.Create(szPage): szPage and szAlloc, ResizeHash, InitBulk (Destroy
\* does nothing).  nMax and nInitPage stay as they are.
CreateOuts(S, szPage) ==
  UNION {IF rs.hang THEN {[out |-> "hang", s |-> rs.s]}
         ELSE {[out |-> IF ib.ok THEN "done" ELSE "panic", s |-> ib.s] : ib \in InitBulkOuts(rs.s)} :
           rs \in ResizeHashOuts([c |-> [S.c EXCEPT !.szPage = szPage,
                                                    !.szAlloc = szPage + PtrSize],
                                  h |-> S.h])}

\* Create on a PCache that has no PgHdr yet
Create(c0, szPage) == CreateOuts([c |-> c0, h |-> <<>>], szPage)

\* ------------------------------------------------- what the lists contain
Cur == [c |-> pCache, h |-> hdr]

\* entries a lookup of their own page number reaches
Resident(e) ==
  /\ hdr[e].iKey # Garbage
  /\ IndexIn(ChainFrom(hdr, Bucket(pCache, hdr[e].iKey % pCache.nHash), Fuel(hdr)), e) > 0

RECURSIVE Follow(_, _, _)
Follow(e, field, fuel) ==
  IF e \notin DOMAIN hdr \/ fuel = 0 THEN <<>>
  ELSE <<e>> \o Follow(hdr[e][field], field, fuel - 1)

DirtyList == Follow(pCache.pDirty, "pDirtyNext", Fuel(hdr))
DirtyListBack == Follow(pCache.pDirtyTail, "pDirtyPrev", Fuel(hdr))
LruList == Follow(pCache.lru.pLruNext, "pLruNext", Fuel(hdr))
LruListBack == Follow(pCache.lru.pLruPrev, "pLruPrev", Fuel(hdr))

\* The entries on the free list: what is reached from pFree along pNext.
\* The list of a fresh cache is as long as its slab: it is walked in
\* stretches of WalkLen entries.
WalkLen == 32
RECURSIVE Walk(_, _)
Walk(e, n) ==
  IF n = 0 \/ e \notin DOMAIN hdr THEN [set |-> {}, end |-> e]
  ELSE LET r == Walk(hdr[e].pNext, n - 1)
       IN [set |-> {e} \cup r.set, end |-> r.end]

RECURSIVE Walks(_, _)
Walks(e, m) ==
  IF m = 0 \/ e \notin DOMAIN hdr THEN {}
  ELSE LET r == Walk(e, WalkLen)
       IN r.set \cup Walks(r.end, m - 1)

FreeList == Walks(pCache.pFree, Cardinality(DOMAIN hdr) \div WalkLen + 1)

\* ---------------------------------------------------------------- actions
NoCacheOp ==
  [op |-> "none", key |-> 0, ent |-> Nil, out |-> "none", recycled |-> Nil, rpin |-> 0,
   rkey |-> 0, resized |-> FALSE, dirtyBefore |-> {}]

NoTreeOp ==
  [op |-> "none", key |-> 0, id |-> 0, res |-> "none", rootSplit |-> FALSE,
   oldRoot |-> Nil, leaf |-> Nil, slot |-> 0, ppg |-> Nil]

\* BPlusTree{}: the tree before any statement has written it.
TreeStart ==
  /\ hm = <<>>
  /\ root = Nil
  /\ btPages = 0
  /\ inserted = {}
  /\ last = NoTreeOp

\* The cache settings: the zero PCache, the two small caches and the large
\* one.
Settings ==
  {[nMax |-> 0, nInitPage |-> 0],
   [nMax |-> CacheMax, nInitPage |-> nInitPage],
   [nMax |-> HelperMax, nInitPage |-> nInitPage],
   [nMax |-> BulkMax, nInitPage |-> nInitPage]}

SmallCache == [nMax |-> CacheMax, nInitPage |-> nInitPage]

Configured(cfg) == [ZeroPCache EXCEPT !.nMax = cfg.nMax, !.nInitPage = cfg.nInitPage]

\* A cache that Create has just built from a PCache with the settings cfg,
\* or that Create was building when a write of InitBulk past the end of
\* its slab ended the program.
CacheStart(cfg) ==
  /\ \E r \in Create(Configured(cfg), PageSize) :
       /\ pCache = r.s.c
       /\ hdr = r.s.h
       /\ panicked = (r.out # "done")
  /\ clast = NoCacheOp
  /\ thr = [t \in Callers |-> IdleCaller]
  /\ helperCalls = 0

CacheInit == TreeStart /\ \E cfg \in Settings : CacheStart(cfg)

\* The caches the callers of ConcSpec start on: a small cache as Create has
\* built it, or after one caller has fetched page 1, or has fetched it and
\* let it go.
ConcSettings == {SmallCache, [nMax |-> HelperMax, nInitPage |-> nInitPage]}

Fetched(S) == {f \in FetchPageResult(S, 1) : f.out = "miss"}

ConcStarts(S) ==
  {S} \cup {f.s : f \in Fetched(S)} \cup {UnpinOn(f.s, f.ret) : f \in Fetched(S)}

ConcInit ==
  /\ TreeStart
  /\ \E cfg \in ConcSettings : \E r \in Create(Configured(cfg), PageSize) :
       \E S \in (IF r.out = "done" THEN ConcStarts(r.s) ELSE {r.s}) :
         /\ pCache = S.c
         /\ hdr = S.h
         /\ panicked = (r.out # "done")
  /\ clast = NoCacheOp
  /\ thr = [t \in Callers |-> IdleCaller]
  /\ helperCalls = 0

\* The tree code creates no cache: the PCache of a tree run is the zero
\* value, with no PgHdr.
NoCache ==
  /\ pCache = ZeroPCache
  /\ hdr = <<>>
  /\ clast = NoCacheOp
  /\ thr = [t \in Callers |-> IdleCaller]
  /\ helperCalls = 0
  /\ panicked = FALSE

\* ------------------------------------------------------------ tree inputs
SortedSeq(S) ==
  CHOOSE q \in [1..Cardinality(S) -> S] : \A i, j \in 1..Cardinality(S) : i < j => q[i] < q[j]

\* the values of ph.nFree: none, just not enough for a cell and a payload
\* of one id, and more
FreeBytes == {0, CellSize + 1, MaxFree}

\* what the memory behind the last cell of a leaf can hold: zeroes, or a
\* cell that was there before
LeafGaps == {MkPayload(k, off, <<>>) : k \in 0..MaxKey, off \in {Nil, 1}}

\* a leaf page with the keys K in ascending order, one payload id each; the
\* payload of key k lies at offset k
LeafPage(flag, pgno, par, nFree, K, gap) ==
  LET ks == SortedSeq(K)
  IN MkPage(flag, pgno, par, nFree, [j \in 1..Len(ks) |-> MkPayload(ks[j], ks[j], <<1>>)], gap)

\* A tree of one page: the root is a leaf.
OneLevel(flag, nFree, K, gap) == (1 :> LeafPage(flag, 1, Nil, nFree, K, gap))

\* A tree of two levels as section 3 of the design text lays it out: page 1
\* is the interior root with the separators seps in ascending order, cell i
\* pointing at leaf page i + 1 and the right child at the last leaf; the
\* leaves hold the keys of K, each in the leaf of its range.  The slot
\* behind the root's last cell holds the page number gapPtr.
TwoLevel(seps, K, nFree, gapPtr) ==
  LET n == Len(seps)
      lo(i) == IF i = 1 THEN 0 ELSE seps[i - 1]
      hi(i) == IF i = n + 1 THEN MaxKey + 1 ELSE seps[i]
      leaf(i) == LeafPage(LEAFPAGE, i + 1, 1, nFree, {k \in K : lo(i) <= k /\ k < hi(i)},
                          MkCell(0, Nil))
      rootpg == [MkPage(INTERPAGE, 1, Nil, nFree, [i \in 1..n |-> MkCell(seps[i], i + 1)],
                        MkCell(0, gapPtr))
                   EXCEPT !.right = n + 2]
  IN [q \in 1..(n + 2) |-> IF q = 1 THEN rootpg ELSE leaf(q - 1)]

\* The trees of one page that Insert and Search are applied to, and the
\* tree no statement has written.
Init ==
  /\ \/ TreeStart
     \/ /\ \E K \in SUBSET Keys, nFree \in FreeBytes, gap \in LeafGaps :
             /\ hm = OneLevel(LEAFPAGE, nFree, K, gap)
             /\ inserted = K
        /\ root = 1 /\ btPages = 1 /\ last = NoTreeOp
     \/ /\ hm = OneLevel(DiskLeafFlag, 0, {}, MkCell(0, Nil))
        /\ inserted = {}
        /\ root = 1 /\ btPages = 1 /\ last = NoTreeOp
  /\ NoCache

\* The trees of two levels.
FindInit ==
  /\ \E S \in (SUBSET (2..MaxKey)) \ {{}}, K \in SUBSET Keys, nFree \in FreeBytes :
       \E gapPtr \in 0..(Cardinality(S) + 2) :
         /\ hm = TwoLevel(SortedSeq(S), K, nFree, gapPtr)
         /\ btPages = Cardinality(S) + 2
         /\ inserted = K
  /\ root = 1
  /\ last = NoTreeOp
  /\ NoCache

\* Insert with a MemPage.insert that stores the cell when the page has room
\* for it (the comment of line 164), at the slot find() stopped at
InsertStoresCell(k, id) ==
  /\ ~panicked
  /\ LET r == InsertResult(k, id)
         s == Search(k)
         pg == hm[s.pg]
         stored == [pg EXCEPT !.nCell = @ + 1,
                              !.cell = SubSeq(@, 1, s.slot - 1) \o <<MkPayload(k, k, <<id>>)>>
                                         \o SubSeq(@, s.slot, Len(@))]
     IN /\ root' = r.root
        /\ panicked' = (r.res \in {"panic", "hang"})
        /\ inserted' = IF r.res \in {"panic", "hang"} THEN inserted ELSE inserted \cup {k}
        /\ last' = [op |-> "Insert", key |-> k, id |-> id, res |-> r.res,
                    rootSplit |-> RootSplitBy(k), oldRoot |-> root,
                    leaf |-> s.pg, slot |-> s.slot, ppg |-> r.ppg]
        /\ hm' = IF r.res = "fit" THEN [hm EXCEPT ![s.pg] = stored] ELSE hm
  /\ UNCHANGED btPages
  /\ UNCHANGED cacheVars

\* BPlusTree.Insert(pl) with pl = (k, <<id>>), as a step.  The call writes
\* no page (MemPage.insert stores nothing) and no field of the tree but
\* bptree.page.
Insert(k, id) ==
  /\ ~panicked
  /\ LET r == InsertResult(k, id)
     IN /\ root' = r.root
        /\ panicked' = (r.res \in {"panic", "hang"})
        /\ inserted' = IF r.res \in {"panic", "hang"} THEN inserted ELSE inserted \cup {k}
        /\ last' = [op |-> "Insert", key |-> k, id |-> id, res |-> r.res,
                    rootSplit |-> RootSplitBy(k), oldRoot |-> root,
                    leaf |-> Search(k).pg, slot |-> Search(k).slot, ppg |-> r.ppg]
  /\ UNCHANGED <<hm, btPages>>
  /\ UNCHANGED cacheVars

\* Search(k): the caller has the offset and the page, and takes a nil
\* offset for "k is not there" (as Insert does, line 106).
DoSearch(k) ==
  /\ ~panicked
  /\ LET s == Search(k)
     IN /\ panicked' = (s.res # "ok")
        /\ last' = [op |-> "Search", key |-> k, id |-> 0,
                    res |-> IF s.res # "ok" THEN s.res
                            ELSE IF s.offset # Nil THEN "found" ELSE "absent",
                    rootSplit |-> FALSE, oldRoot |-> root, leaf |-> s.pg, slot |-> s.slot,
                    ppg |-> Nil]
  /\ UNCHANGED <<hm, root, btPages, inserted>>
  /\ UNCHANGED cacheVars

\* The workloads: any operation on a few pages of the small cache (and of
\* the zero one); or the scan of the large one,
\* which asks for the first page again or for the next page up to ScanEnd,
\* and holds on to the first slab entry only.
Bulk == pCache.nMax = BulkMax
ScanEnd == BulkStride * (BulkMax + 1)
Wanted ==
  IF Bulk
    THEN {BulkStride} \cup {k \in {pCache.iMaxKey + BulkStride} : k <= ScanEnd}
    ELSE PageKeys
Held == IF Bulk THEN {e \in DOMAIN hdr : e = 1} ELSE DOMAIN hdr
\* the scan writes no page
Written == IF Bulk THEN {} ELSE Held
\* the entries a FetchPage call has returned at some time
Handed == {e \in Written : hdr[e].iKey # Garbage}

FetchPage(iKey) ==
  /\ ~panicked
  /\ \E r \in FetchPageResult(Cur, iKey) :
       /\ pCache' = r.s.c
       /\ hdr' = r.s.h
       /\ panicked' = (r.out \in {"panic", "hang"})
       /\ clast' = [op |-> "FetchPage", key |-> iKey, ent |-> r.ret, out |-> r.out,
                    recycled |-> r.recycled, rpin |-> r.rpin, rkey |-> r.rkey,
                    resized |-> r.resized, dirtyBefore |-> {}]
  /\ UNCHANGED <<treeVars, thr, helperCalls>>

\* the holder of a pinned page lets it go
Unpin(p) ==
  /\ ~panicked
  /\ Resident(p)
  /\ hdr[p].isPinned > 0
  /\ pCache' = UnpinOn(Cur, p).c
  /\ hdr' = UnpinOn(Cur, p).h
  /\ clast' = [NoCacheOp EXCEPT !.op = "Unpin"]
  /\ UNCHANGED <<treeVars, panicked, thr, helperCalls>>

\* a call whose outcome r is [out, s]
Outcome(op, p, r) ==
  /\ pCache' = r.s.c
  /\ hdr' = r.s.h
  /\ panicked' = (r.out \in {"panic", "hang"})
  /\ clast' = [NoCacheOp EXCEPT !.op = op, !.ent = p, !.out = r.out]

MakeDirty(p) ==
  /\ ~panicked
  /\ Resident(p)
  /\ \E r \in MakeDirtyOuts(Cur, p) : Outcome("MakeDirty", p, r)
  /\ UNCHANGED <<treeVars, thr, helperCalls>>

MakeClean(p) ==
  /\ ~panicked
  /\ Resident(p)
  /\ \E r \in MakeCleanOuts(Cur, p) : Outcome("MakeClean", p, r)
  /\ UNCHANGED <<treeVars, thr, helperCalls>>

\* the entries that are on the dirty list or carry the DIRTY flag
WasDirty ==
  {e \in DOMAIN hdr : "DIRTY" \in hdr[e].flags}
    \cup {DirtyList[i] : i \in 1..Len(DirtyList)}

MakeCleanAll ==
  /\ ~panicked
  /\ \E r \in MakeCleanAllOn(Cur, Fuel(hdr)) :
       /\ pCache' = r.s.c
       /\ hdr' = r.s.h
       /\ panicked' = (r.out # "done")
       /\ clast' = [NoCacheOp EXCEPT !.op = "MakeCleanAll", !.out = r.out,
                                     !.dirtyBefore = WasDirty]
  /\ UNCHANGED <<treeVars, thr, helperCalls>>

\* The methods the operations above are built from are exported as well: a
\* caller can run each of them by itself, on the cache as it is and on an
\* entry it was handed.  The owner of the cache with nMax = HelperMax does
\* so, MaxHelperCalls times in a run at most.
Helper ==
  /\ ~panicked
  /\ pCache.nMax = HelperMax
  /\ helperCalls < MaxHelperCalls
  /\ helperCalls' = helperCalls + 1
  /\ UNCHANGED <<treeVars, thr>>

DoCreate ==
  /\ Helper
  /\ \E r \in CreateOuts(Cur, PageSize) : Outcome("Create", Nil, r)

DoInitBulk ==
  /\ Helper
  /\ \E r \in InitBulkOuts(Cur) :
       Outcome("InitBulk", Nil, [out |-> IF r.ok THEN "done" ELSE "panic", s |-> r.s])

DoAllocPage ==
  /\ Helper
  /\ Outcome("AllocPage", AllocPage(Cur).page, [out |-> "done", s |-> AllocPage(Cur).s])

DoFreePage(p) ==
  /\ Helper
  /\ Outcome("FreePage", p, [out |-> "done", s |-> FreePage(Cur, p)])

DoResizeHash ==
  /\ Helper
  /\ \E r \in ResizeHashOuts(Cur) :
       Outcome("ResizeHash", Nil, [out |-> IF r.hang THEN "hang" ELSE "done", s |-> r.s])

DoRemoveFromHash(p) ==
  /\ Helper
  /\ Outcome("RemoveFromHash", p, RemoveFromHash(Cur, p))

DoManageDirtyList(p, addRemove) ==
  /\ Helper
  /\ \E r \in ManageDirtyListOuts(Cur, p, addRemove) :
       Outcome("ManageDirtyList", p, [out |-> IF r.ok THEN "done" ELSE "panic", s |-> r.s])

\* FetchPage run by several callers with no lock taken (the source takes
\* none).  A step is one load or one store of a field of the PCache or of a
\* PgHdr, with the work on the caller's own locals that goes with it; the
\* steps of different callers interleave.  thr[t] holds the caller's
\* locals: iKey and pPage of FetchPage, h (the slot of lines 131, 159 and
\* 241), page of AllocPage, p of RemoveFromHash (0: &apHash[h]; e: the pNext
\* field of entry e), and the values a statement has loaded and not yet
\* used (n a number, v a pointer).  A local that is not read again is set
\* back to zero.
At(t, pc) == ~panicked /\ thr[t].pc = pc
Goto(t, pc) == thr' = [thr EXCEPT ![t].pc = pc]
Returned(t) == [IdleCaller EXCEPT !.calls = thr[t].calls]
\* a nil dereference, or a division by nHash = 0
Panic == panicked' = TRUE /\ UNCHANGED <<pCache, hdr, thr>>
\* *p of RemoveFromHash
Target(t) == IF thr[t].p = 0 THEN Bucket(pCache, thr[t].h) ELSE hdr[thr[t].p].pNext

\* line 131, the load of pCache.nHash: the slot of iKey
ConcCall(t, iKey) ==
  /\ At(t, "idle")
  /\ thr[t].calls < MaxCalls
  /\ IF pCache.nHash = 0 THEN Panic
     ELSE /\ thr' = [thr EXCEPT ![t].pc = "head", ![t].iKey = iKey,
                                ![t].h = iKey % pCache.nHash, ![t].calls = @ + 1]
          /\ UNCHANGED <<pCache, hdr, panicked>>
  /\ UNCHANGED <<treeVars, clast, helperCalls>>

\* line 131, the load of pCache.apHash[...]
ConcHead(t) ==
  /\ At(t, "head")
  /\ thr' = [thr EXCEPT ![t].pc = "walk", ![t].pPage = Bucket(pCache, thr[t].h), ![t].h = 0]
  /\ UNCHANGED <<treeVars, pCache, hdr, clast, panicked, helperCalls>>

\* line 132: pPage && pPage.iKey != iKey
ConcWalk(t) ==
  /\ At(t, "walk")
  /\ IF thr[t].pPage = Nil
       THEN Goto(t, "test") /\ UNCHANGED hdr
       ELSE \E k \in KeyRead(hdr[thr[t].pPage].iKey) :
              /\ hdr' = SettleKey(Cur, thr[t].pPage, k).h
              /\ Goto(t, IF k # thr[t].iKey THEN "step" ELSE "test")
  /\ UNCHANGED <<treeVars, pCache, clast, panicked, helperCalls>>

\* line 133: pPage = pPage.pNext
ConcStep(t) ==
  /\ At(t, "step")
  /\ thr' = [thr EXCEPT ![t].pc = "walk", ![t].pPage = hdr[thr[t].pPage].pNext]
  /\ UNCHANGED <<treeVars, pCache, hdr, clast, panicked, helperCalls>>

\* lines 139-141: a page that was found is returned
ConcTest(t) ==
  /\ At(t, "test")
  /\ thr' = [thr EXCEPT ![t] = IF thr[t].pPage # Nil THEN Returned(t)
                               ELSE [@ EXCEPT !.pc = "resize"]]
  /\ UNCHANGED <<treeVars, pCache, hdr, clast, panicked, helperCalls>>

\* line 143, the load of pCache.nPage
ConcResizeRead(t) ==
  /\ At(t, "resize")
  /\ thr' = [thr EXCEPT ![t].pc = "resize2", ![t].n = pCache.nPage]
  /\ UNCHANGED <<treeVars, pCache, hdr, clast, panicked, helperCalls>>

\* line 143, the load of pCache.nHash and the test; line 144.  The callers
\* of ConcSpec ask for fewer than MinHash pages, so that the test fails in
\* each of its states; the ResizeHash call of line 144 is kept whole.
ConcResize(t) ==
  /\ At(t, "resize2")
  /\ \E rs \in (IF thr[t].n >= pCache.nHash THEN ResizeHashOuts(Cur)
                ELSE {[hang |-> FALSE, s |-> Cur]}) :
       /\ pCache' = rs.s.c
       /\ hdr' = rs.s.h
       /\ panicked' = rs.hang
  /\ thr' = [thr EXCEPT ![t].pc = "recycle", ![t].n = 0]
  /\ UNCHANGED <<treeVars, clast, helperCalls>>

\* line 147, the load of pCache.nPage
ConcRecycleRead(t) ==
  /\ At(t, "recycle")
  /\ thr' = [thr EXCEPT ![t].pc = "recycle2", ![t].n = pCache.nPage]
  /\ UNCHANGED <<treeVars, pCache, hdr, clast, panicked, helperCalls>>

\* line 147, the load of pCache.nMax and the test (pPage is nil here, so
\* that without a recycle line 154 goes on to AllocPage)
ConcRecycle(t) ==
  /\ At(t, "recycle2")
  /\ thr' = [thr EXCEPT ![t].pc = IF thr[t].n + 1 >= pCache.nMax THEN "victim" ELSE "alloc",
                        ![t].n = 0]
  /\ UNCHANGED <<treeVars, pCache, hdr, clast, panicked, helperCalls>>

\* line 148: pPage = pGroup.lru.pLruPrev
ConcVictim(t) ==
  /\ At(t, "victim")
  /\ thr' = [thr EXCEPT ![t].pc = "rmkey", ![t].pPage = pCache.lru.pLruPrev]
  /\ UNCHANGED <<treeVars, pCache, hdr, clast, panicked, helperCalls>>

\* RemoveFromHash line 241, the load of pPage.iKey
ConcRemoveKey(t) ==
  /\ At(t, "rmkey")
  /\ IF thr[t].pPage = Nil THEN Panic
     ELSE /\ \E k \in KeyRead(hdr[thr[t].pPage].iKey) :
               /\ hdr' = SettleKey(Cur, thr[t].pPage, k).h
               /\ thr' = [thr EXCEPT ![t].pc = "rmslot", ![t].n = k]
          /\ UNCHANGED <<pCache, panicked>>
  /\ UNCHANGED <<treeVars, clast, helperCalls>>

\* line 241, the load of pCache.nHash; line 242: p := &pCache.apHash[h]
ConcRemoveSlot(t) ==
  /\ At(t, "rmslot")
  /\ IF pCache.nHash = 0 THEN Panic
     ELSE /\ thr' = [thr EXCEPT ![t].pc = "rmtest", ![t].h = thr[t].n % pCache.nHash,
                                ![t].n = 0, ![t].p = 0]
          /\ UNCHANGED <<pCache, hdr, panicked>>
  /\ UNCHANGED <<treeVars, clast, helperCalls>>

\* line 243, the condition: (*p) != pPage (p is an address and never nil:
\* line 245 goes on)
ConcRemoveTest(t) ==
  /\ At(t, "rmtest")
  /\ Goto(t, IF Target(t) # thr[t].pPage THEN "rmstep" ELSE "unlink")
  /\ UNCHANGED <<treeVars, pCache, hdr, clast, panicked, helperCalls>>

\* line 243, the post statement: p = &((*p).pNext)
ConcRemoveStep(t) ==
  /\ At(t, "rmstep")
  /\ IF Target(t) \notin DOMAIN hdr THEN Panic
     ELSE /\ thr' = [thr EXCEPT ![t].pc = "rmtest", ![t].p = Target(t)]
          /\ UNCHANGED <<pCache, hdr, panicked>>
  /\ UNCHANGED <<treeVars, clast, helperCalls>>

\* line 248, *p = (*p).pNext: the load of *p
ConcUnlinkRead(t) ==
  /\ At(t, "unlink")
  /\ thr' = [thr EXCEPT ![t].pc = "unlink2", ![t].v = Target(t)]
  /\ UNCHANGED <<treeVars, pCache, hdr, clast, panicked, helperCalls>>

\* line 248: the load of its pNext
ConcUnlinkNext(t) ==
  /\ At(t, "unlink2")
  /\ IF thr[t].v \notin DOMAIN hdr THEN Panic
     ELSE /\ thr' = [thr EXCEPT ![t].pc = "unlink3", ![t].v = hdr[thr[t].v].pNext]
          /\ UNCHANGED <<pCache, hdr, panicked>>
  /\ UNCHANGED <<treeVars, clast, helperCalls>>

\* line 248: the store to *p
ConcUnlink(t) ==
  /\ At(t, "unlink3")
  /\ IF thr[t].p = 0
       THEN /\ pCache' = [pCache EXCEPT !.apHash = SetBucket(@, thr[t].h, thr[t].v)]
            /\ UNCHANGED hdr
       ELSE /\ hdr' = [hdr EXCEPT ![thr[t].p].pNext = thr[t].v]
            /\ UNCHANGED pCache
  /\ thr' = [thr EXCEPT ![t].pc = "uncount", ![t].h = 0, ![t].p = 0, ![t].v = Nil]
  /\ UNCHANGED <<treeVars, clast, panicked, helperCalls>>

\* line 250, pCache.nPage--: the load
ConcUncountRead(t) ==
  /\ At(t, "uncount")
  /\ thr' = [thr EXCEPT ![t].pc = "uncount2", ![t].n = pCache.nPage]
  /\ UNCHANGED <<treeVars, pCache, hdr, clast, panicked, helperCalls>>

\* line 250: the store
ConcUncount(t) ==
  /\ At(t, "uncount2")
  /\ pCache' = [pCache EXCEPT !.nPage = thr[t].n - 1]
  /\ thr' = [thr EXCEPT ![t].pc = "free", ![t].n = 0]
  /\ UNCHANGED <<treeVars, hdr, clast, panicked, helperCalls>>

\* FreePage line 198, p.pNext = pCache.pFree: the load
ConcFreeRead(t) ==
  /\ At(t, "free")
  /\ thr' = [thr EXCEPT ![t].pc = "free2", ![t].v = pCache.pFree]
  /\ UNCHANGED <<treeVars, pCache, hdr, clast, panicked, helperCalls>>

\* line 198: the store
ConcFreeLink(t) ==
  /\ At(t, "free2")
  /\ hdr' = [hdr EXCEPT ![thr[t].pPage].pNext = thr[t].v]
  /\ thr' = [thr EXCEPT ![t].pc = "free3", ![t].v = Nil]
  /\ UNCHANGED <<treeVars, pCache, clast, panicked, helperCalls>>

\* line 199: pCache.pFree = p (and line 154: pPage is not nil)
ConcFreePush(t) ==
  /\ At(t, "free3")
  /\ pCache' = [pCache EXCEPT !.pFree = thr[t].pPage]
  /\ Goto(t, "hash")
  /\ UNCHANGED <<treeVars, hdr, clast, panicked, helperCalls>>

\* AllocPage line 179: if pCache.pFree; without a free entry lines 185-189,
\* which write the new object only
ConcAllocTest(t) ==
  /\ At(t, "alloc")
  /\ IF pCache.pFree # Nil
       THEN Goto(t, "page") /\ UNCHANGED hdr
       ELSE LET page == Cardinality(DOMAIN hdr) + 1
            IN /\ hdr' = hdr @@ (page :> MallocHdr)
               /\ thr' = [thr EXCEPT ![t].pc = "hash", ![t].pPage = page]
  /\ UNCHANGED <<treeVars, pCache, clast, panicked, helperCalls>>

\* line 180: page := pCache.pFree
ConcAllocRead(t) ==
  /\ At(t, "page")
  /\ thr' = [thr EXCEPT ![t].pc = "pop", ![t].page = pCache.pFree]
  /\ UNCHANGED <<treeVars, pCache, hdr, clast, panicked, helperCalls>>

\* line 181, pCache.pFree = page.pNext: the load
ConcAllocNext(t) ==
  /\ At(t, "pop")
  /\ IF thr[t].page = Nil THEN Panic
     ELSE /\ thr' = [thr EXCEPT ![t].pc = "pop2", ![t].v = hdr[thr[t].page].pNext]
          /\ UNCHANGED <<pCache, hdr, panicked>>
  /\ UNCHANGED <<treeVars, clast, helperCalls>>

\* line 181: the store
ConcAllocPop(t) ==
  /\ At(t, "pop2")
  /\ pCache' = [pCache EXCEPT !.pFree = thr[t].v]
  /\ thr' = [thr EXCEPT ![t].pc = "clear", ![t].v = Nil]
  /\ UNCHANGED <<treeVars, hdr, clast, panicked, helperCalls>>

\* line 182: page.pNext = 0; line 183 and the assignment of line 155
ConcAllocClear(t) ==
  /\ At(t, "clear")
  /\ hdr' = [hdr EXCEPT ![thr[t].page].pNext = Nil]
  /\ thr' = [thr EXCEPT ![t].pc = "hash", ![t].pPage = thr[t].page, ![t].page = Nil]
  /\ UNCHANGED <<treeVars, pCache, clast, panicked, helperCalls>>

\* line 159: h := iKey % pCache.nHash
ConcHash(t) ==
  /\ At(t, "hash")
  /\ IF pCache.nHash = 0 THEN Panic
     ELSE /\ thr' = [thr EXCEPT ![t].pc = "count", ![t].h = thr[t].iKey % pCache.nHash]
          /\ UNCHANGED <<pCache, hdr, panicked>>
  /\ UNCHANGED <<treeVars, clast, helperCalls>>

\* line 160, pCache.nPage++: the load
ConcCountRead(t) ==
  /\ At(t, "count")
  /\ thr' = [thr EXCEPT ![t].pc = "count2", ![t].n = pCache.nPage]
  /\ UNCHANGED <<treeVars, pCache, hdr, clast, panicked, helperCalls>>

\* line 160: the store
ConcCountWrite(t) ==
  /\ At(t, "count2")
  /\ pCache' = [pCache EXCEPT !.nPage = thr[t].n + 1]
  /\ thr' = [thr EXCEPT ![t].pc = "key", ![t].n = 0]
  /\ UNCHANGED <<treeVars, hdr, clast, panicked, helperCalls>>

\* line 161: pPage.iKey = iKey
ConcSetKey(t) ==
  /\ At(t, "key")
  /\ hdr' = [hdr EXCEPT ![thr[t].pPage].iKey = thr[t].iKey]
  /\ Goto(t, "next")
  /\ UNCHANGED <<treeVars, pCache, clast, panicked, helperCalls>>

\* line 162, pPage.pNext = pCache.apHash[h]: the load
ConcNextRead(t) ==
  /\ At(t, "next")
  /\ thr' = [thr EXCEPT ![t].pc = "next2", ![t].v = Bucket(pCache, thr[t].h)]
  /\ UNCHANGED <<treeVars, pCache, hdr, clast, panicked, helperCalls>>

\* line 162: the store (line 163 writes pPage.pCache, which no statement
\* reads)
ConcSetNext(t) ==
  /\ At(t, "next2")
  /\ hdr' = [hdr EXCEPT ![thr[t].pPage].pNext = thr[t].v]
  /\ thr' = [thr EXCEPT ![t].pc = "lruprev", ![t].v = Nil]
  /\ UNCHANGED <<treeVars, pCache, clast, panicked, helperCalls>>

\* line 164: pPage.pLruPrev = 0
ConcSetLruPrev(t) ==
  /\ At(t, "lruprev")
  /\ hdr' = [hdr EXCEPT ![thr[t].pPage].pLruPrev = Nil]
  /\ Goto(t, "lrunext")
  /\ UNCHANGED <<treeVars, pCache, clast, panicked, helperCalls>>

\* line 165: pPage.pLruNext = 0
ConcSetLruNext(t) ==
  /\ At(t, "lrunext")
  /\ hdr' = [hdr EXCEPT ![thr[t].pPage].pLruNext = Nil]
  /\ Goto(t, "pin")
  /\ UNCHANGED <<treeVars, pCache, clast, panicked, helperCalls>>

\* line 166: pPage.isPinned = 1
ConcSetPin(t) ==
  /\ At(t, "pin")
  /\ hdr' = [hdr EXCEPT ![thr[t].pPage].isPinned = 1]
  /\ Goto(t, "publish")
  /\ UNCHANGED <<treeVars, pCache, clast, panicked, helperCalls>>

\* line 167: pCache.apHash[h] = pPage
ConcPublish(t) ==
  /\ At(t, "publish")
  /\ pCache' = [pCache EXCEPT !.apHash = SetBucket(@, thr[t].h, thr[t].pPage)]
  /\ Goto(t, "maxkey")
  /\ UNCHANGED <<treeVars, hdr, clast, panicked, helperCalls>>

\* line 168: the load of pCache.iMaxKey and the test; line 172
ConcMaxKeyTest(t) ==
  /\ At(t, "maxkey")
  /\ thr' = [thr EXCEPT ![t] = IF thr[t].iKey > pCache.iMaxKey THEN [@ EXCEPT !.pc = "maxkey2"]
                               ELSE Returned(t)]
  /\ UNCHANGED <<treeVars, pCache, hdr, clast, panicked, helperCalls>>

\* line 169: pCache.iMaxKey = iKey; line 172
ConcMaxKey(t) ==
  /\ At(t, "maxkey2")
  /\ pCache' = [pCache EXCEPT !.iMaxKey = thr[t].iKey]
  /\ thr' = [thr EXCEPT ![t] = Returned(t)]
  /\ UNCHANGED <<treeVars, hdr, clast, panicked, helperCalls>>

TreeNext ==
  \/ \E k \in Keys, id \in Ids : Insert(k, id)
  \/ \E k \in Keys : DoSearch(k)

\* FetchPage calls only, and the callers letting go of what they hold
FetchNext ==
  \/ \E k \in Wanted : FetchPage(k)
  \/ \E p \in Held : Unpin(p)

CacheNext ==
  \/ \E k \in Wanted : FetchPage(k)
  \/ \E p \in Held : Unpin(p)
  \/ \E p \in Written : MakeDirty(p)
  \/ \E p \in Written : MakeClean(p)
  \/ MakeCleanAll
  \/ DoCreate
  \/ DoInitBulk
  \/ DoAllocPage
  \/ \E p \in Handed : DoFreePage(p)
  \/ DoResizeHash
  \/ \E p \in Handed : DoRemoveFromHash(p)
  \/ \E p \in Handed, addRemove \in {PCACHE_DIRTYLIST_REMOVE, PCACHE_DIRTYLIST_ADD,
                                     PCACHE_DIRTYLIST_FRONT} : DoManageDirtyList(p, addRemove)

ConcNext ==
  \/ \E t \in Callers, k \in PageKeys : ConcCall(t, k)
  \/ \E t \in Callers : ConcHead(t)
  \/ \E t \in Callers : ConcWalk(t)
  \/ \E t \in Callers : ConcStep(t)
  \/ \E t \in Callers : ConcTest(t)
  \/ \E t \in Callers : ConcResizeRead(t)
  \/ \E t \in Callers : ConcResize(t)
  \/ \E t \in Callers : ConcRecycleRead(t)
  \/ \E t \in Callers : ConcRecycle(t)
  \/ \E t \in Callers : ConcVictim(t)
  \/ \E t \in Callers : ConcRemoveKey(t)
  \/ \E t \in Callers : ConcRemoveSlot(t)
  \/ \E t \in Callers : ConcRemoveTest(t)
  \/ \E t \in Callers : ConcRemoveStep(t)
  \/ \E t \in Callers : ConcUnlinkRead(t)
  \/ \E t \in Callers : ConcUnlinkNext(t)
  \/ \E t \in Callers : ConcUnlink(t)
  \/ \E t \in Callers : ConcUncountRead(t)
  \/ \E t \in Callers : ConcUncount(t)
  \/ \E t \in Callers : ConcFreeRead(t)
  \/ \E t \in Callers : ConcFreeLink(t)
  \/ \E t \in Callers : ConcFreePush(t)
  \/ \E t \in Callers : ConcAllocTest(t)
  \/ \E t \in Callers : ConcAllocRead(t)
  \/ \E t \in Callers : ConcAllocNext(t)
  \/ \E t \in Callers : ConcAllocPop(t)
  \/ \E t \in Callers : ConcAllocClear(t)
  \/ \E t \in Callers : ConcHash(t)
  \/ \E t \in Callers : ConcCountRead(t)
  \/ \E t \in Callers : ConcCountWrite(t)
  \/ \E t \in Callers : ConcSetKey(t)
  \/ \E t \in Callers : ConcNextRead(t)
  \/ \E t \in Callers : ConcSetNext(t)
  \/ \E t \in Callers : ConcSetLruPrev(t)
  \/ \E t \in Callers : ConcSetLruNext(t)
  \/ \E t \in Callers : ConcSetPin(t)
  \/ \E t \in Callers : ConcPublish(t)
  \/ \E t \in Callers : ConcMaxKeyTest(t)
  \/ \E t \in Callers : ConcMaxKey(t)

Spec == Init /\ [][TreeNext]_vars

CacheSpec == CacheInit /\ [][CacheNext]_vars

FetchSpec == CacheInit /\ [][FetchNext]_vars

ConcSpec == ConcInit /\ [][ConcNext]_vars

FindSpec == FindInit /\ [][TreeNext]_vars

\* ------------------------------------------------------- tree: the claims
Range(f) == {f[i] : i \in DOMAIN f}

\* the cells of page q: the first nCell slots of its cell area
CellsOf(q) == {hm[q].cell[i] : i \in 1..hm[q].nCell}
LeafCells == UNION {CellsOf(q) : q \in {x \in DOMAIN hm : hm[x].flag = LEAFPAGE}}
Found(k) == Search(k).res = "ok" /\ Search(k).offset # Nil
KeyStored(k) == \E c \in LeafCells : c.key = k
PairStored(k, id) == \E c \in LeafCells : c.key = k /\ id \in Range(c.entrys)
ValuesOf(k) == IF KeyStored(k) THEN (CHOOSE c \in LeafCells : c.key = k).entrys ELSE <<>>

\* C1: after an Insert call has returned, Search(k) reports found exactly
\* for the keys that were inserted.
C1_SearchFindsInserted ==
  (last.op = "Insert" /\ last.res \notin {"panic", "hang"}) =>
    \A k \in Keys : Found(k) <=> k \in inserted

C3_AppendsNewId ==
  [][\A k \in Keys, id \in Ids :
       (last'.op = "Insert" /\ last'.key = k /\ last'.id = id
          /\ KeyStored(k) /\ ~PairStored(k, id))
         => ValuesOf(k)' = Append(ValuesOf(k), id)]_vars

\* the keys below page q
RECURSIVE SubtreeKeys(_, _)
SubtreeKeys(q, fuel) ==
  IF q \notin DOMAIN hm \/ fuel = 0 THEN {}
  ELSE IF hm[q].flag = LEAFPAGE THEN {c.key : c \in CellsOf(q)}
  ELSE UNION ({SubtreeKeys(c.ptr, fuel - 1) : c \in CellsOf(q)}
              \cup {SubtreeKeys(hm[q].right, fuel - 1)})

KeyRangeOK(q) ==
  LET cs == hm[q].cell
      n == hm[q].nCell
  IN /\ \A i \in 1..(n - 1) : cs[i].key < cs[i + 1].key
     /\ \A i \in 1..n : \A x \in SubtreeKeys(cs[i].ptr, btPages) : x < cs[i].key
     /\ n > 0 => \A x \in SubtreeKeys(hm[q].right, btPages) : x >= cs[n].key

C5_RootGrowth ==
  last.rootSplit =>
    /\ root # last.oldRoot
    /\ root \in DOMAIN hm
    /\ hm[root].flag = INTERPAGE
    /\ hm[root].nCell = 1
    /\ hm[root].cell[1].ptr = last.oldRoot
    /\ hm[root].right \in (DOMAIN hm) \ {root, last.oldRoot}
    /\ hm[hm[root].right].nCell > 0
    /\ hm[root].cell[1].key = hm[hm[root].right].cell[1].key


\* ------------------------------------------------------ cache: the claims
Entries == DOMAIN hdr
DirtySet == {e \in Entries : "DIRTY" \in hdr[e].flags}
Reverse(seq) == [i \in 1..Len(seq) |-> seq[Len(seq) + 1 - i]]

\* C6: an entry is linked in the dirty list exactly when its DIRTY flag is
\* set: the list from pDirty holds the DIRTY entries once each, the list
\* from pDirtyTail is the same list backwards, and pDirty and pDirtyTail are
\* nil exactly when no entry is dirty.
C6_DirtyListIffFlag ==
  /\ Range(DirtyList) = DirtySet
  /\ Len(DirtyList) = Cardinality(DirtySet)
  /\ DirtyListBack = Reverse(DirtyList)
  /\ pCache.pDirty = Nil <=> DirtySet = {}
  /\ pCache.pDirtyTail = Nil <=> DirtySet = {}

\* C7: a resident entry is linked in the LRU list exactly when its pin count
\* is 0, and a FetchPage that finds the entry resident returns it pinned and
\* out of the LRU list.
C7_LruIffUnpinned ==
  /\ \A e \in Entries : Resident(e) => (e \in Range(LruList) <=> hdr[e].isPinned = 0)
  /\ (clast.op = "FetchPage" /\ clast.out = "hit") =>
       (hdr[clast.ent].isPinned >= 1 /\ clast.ent \notin Range(LruList))

ChainOf(i) == ChainFrom(hdr, Bucket(pCache, i), Fuel(hdr))
Chained == UNION {Range(ChainOf(i)) : i \in DOMAIN pCache.apHash}

\* C8: every resident entry is in exactly one chain, the chain of
\* apHash[iKey mod nHash]; no two resident entries have the same page
\* number; a page number that was just evicted is in no chain.
C8_HashConsistent ==
  /\ \A i \in DOMAIN pCache.apHash :
       LET ch == ChainOf(i) IN
       /\ i \in 0..(pCache.nHash - 1)
       /\ Len(ch) < Fuel(hdr)
       /\ Cardinality(Range(ch)) = Len(ch)
       /\ \A e \in Range(ch) : hdr[e].iKey % pCache.nHash = i
  /\ LET all == Chained IN
       /\ Cardinality({hdr[e].iKey : e \in all}) = Cardinality(all)
       /\ Cardinality(all) = pCache.nPage
       /\ clast.recycled # Nil => \A e \in all : hdr[e].iKey # clast.rkey

\* a recycling fetch, after a ResizeHash, with two entries sharing a chain
C8_Witness ==
  /\ clast.recycled # Nil
  /\ pCache.nHash = 2 * MinHash
  /\ \E i \in DOMAIN pCache.apHash : Len(ChainOf(i)) >= 2

\* C9: between FetchPage calls, nPage <= nMax.
C9_NPageWithinMax == pCache.nPage <= pCache.nMax

C9_Witness ==
  /\ clast.op = "FetchPage" /\ clast.out = "miss" /\ clast.recycled # Nil
  /\ pCache.nPage + 1 >= pCache.nMax

\* C10: the entry FetchPage takes out of the hash table in its recycle step
\* has pin count 0.
C10_PinnedNeverEvicted == clast.recycled # Nil => clast.rpin = 0

\* C11: FetchPage never recycles a dirty entry: the entry its recycle step
\* took out of the hash table does not carry the DIRTY flag (FetchPage
\* writes no flags, so the flag is the one the victim had).
C11_DirtyNeverEvicted ==
  (clast.op = "FetchPage" /\ clast.recycled # Nil) =>
    "DIRTY" \notin hdr[clast.recycled].flags

\* C12: a FetchPage call recycles only when nPage + 1 > nMax, and the entry
\* it recycles is the last one of the LRU list, the one unpinned least
\* recently.
C12_StrictLru ==
  [][(clast'.op = "FetchPage" /\ clast'.recycled # Nil) =>
       /\ pCache.nPage + 1 > pCache.nMax
       /\ LruList # <<>>
       /\ clast'.recycled = LruList[Len(LruList)]]_vars

Without(seq, e) == SelectSeq(seq, LAMBDA x : x # e)

\* C13: the dirty list runs from the entry dirtied most recently to the one
\* dirtied earliest: after MakeDirty(p) the entry p is in the list, in front
\* of the list as it was unless it was in it already; MakeClean(p) returns
\* and takes p out, keeping the others in their order; pDirty and
\* pDirtyTail are the two ends of the list.
C13_DirtyOrder ==
  [][LET p == clast'.ent
         ends == DirtyList' # <<>> =>
                   /\ pCache'.pDirty = DirtyList'[1]
                   /\ pCache'.pDirtyTail = DirtyList'[Len(DirtyList')]
     IN /\ clast'.op = "MakeDirty" =>
             /\ DirtyList' = IF p \in Range(DirtyList) THEN DirtyList ELSE <<p>> \o DirtyList
             /\ ends
        /\ clast'.op = "MakeClean" =>
             /\ clast'.out # "panic"
             /\ DirtyList' = Without(DirtyList, p)
             /\ ends]_vars

\* C14: MakeCleanAll returns, and when it has returned pDirty and
\* pDirtyTail are nil and every entry that was dirty is CLEAN and not DIRTY.
C14_MakeCleanAllDrains ==
  clast.op = "MakeCleanAll" =>
    /\ clast.out = "done"
    /\ pCache.pDirty = Nil
    /\ pCache.pDirtyTail = Nil
    /\ \A e \in clast.dirtyBefore : "CLEAN" \in hdr[e].flags /\ "DIRTY" \notin hdr[e].flags

PowerOfTwo(n) == \E k \in 0..16 : n = 2^k

\* C15: a FetchPage miss that finds nPage >= nHash doubles nHash, which
\* stays a power of two and at least 256; ResizeHash itself leaves nPage as
\* it was and every resident page number is found by a lookup in the
\* resized table, in the same entry; after the call the resident entries
\* are those of before and the one just installed.
C15_ResizeKeepsResidents ==
  [][(clast'.op = "FetchPage" /\ clast'.resized) =>
       /\ pCache.nPage >= pCache.nHash
       /\ LET R == ResizeHash(Cur)
          IN /\ R.c.nHash = 2 * pCache.nHash
             /\ R.c.nPage = pCache.nPage
             /\ \A e \in Chained : Lookup(R, hdr[e].iKey) = {[found |-> e, s |-> R]}
       /\ pCache'.nHash = 2 * pCache.nHash
       /\ pCache'.nHash >= MinHash
       /\ PowerOfTwo(pCache'.nHash)
       /\ \A e \in Chained : Lookup(Cur', hdr[e].iKey) = {[found |-> e, s |-> Cur']}
       /\ clast'.out = "miss" => /\ Chained' = Chained \cup {clast'.ent}
                                /\ pCache'.nPage = pCache.nPage + 1]_vars

\* the fetch that doubled the table from MinHash slots, with more pages
\* resident than the old table had slots
C15_Witness ==
  /\ clast.op = "FetchPage" /\ clast.resized /\ clast.out = "miss"
  /\ pCache.nHash = 2 * MinHash
  /\ pCache.nPage = MinHash + 1

\* C16: FetchPage calls on one cache exclude each other, so whenever no
\* call is in progress every page number has one chained entry at most and
\* nPage is the number of chained entries, also after two callers asked
\* for the same absent page at the same time.
C16_FetchesExclude ==
  (\A t \in Callers : thr[t].pc = "idle") =>
    /\ Cardinality({hdr[e].iKey : e \in Chained}) = Cardinality(Chained)
    /\ Cardinality(Chained) = pCache.nPage

\* the child section 3.4 of the design text descends through: the child of
\* the first cell whose key is greater than key, else the rightmost child
SpecChild(p, key) ==
  LET gt == {i \in 1..p.nCell : p.cell[i].key > key}
  IN IF gt = {} THEN p.right
     ELSE p.cell[CHOOSE i \in gt : \A j \in gt : i <= j].ptr

\* C17: a Search that starts on an interior root goes down through the
\* child of the first cell whose key is strictly greater than the key, or
\* through the rightmost child when there is none, and the slot it reads on
\* the root is never the one past the last cell.
C17_InteriorFindStrict ==
  (last.op = "Search" /\ root \in DOMAIN hm /\ hm[root].flag = INTERPAGE) =>
    /\ last.res \notin {"panic", "hang"}
    /\ last.leaf = SpecChild(hm[root], last.key)
    /\ find(hm[root], last.key).slot <= hm[root].nCell

ChildrenOf(q) == {hm[q].cell[i].ptr : i \in 1..hm[q].nCell} \cup {hm[q].right}

\* C18: every page but the root has a parent link that names another page,
\* one of whose child pointers names the page back, and the page an Insert
\* call takes as the parent of the leaf that split (line 115) is that page,
\* never the leaf itself.
C18_ParentLinks ==
  /\ \A q \in (DOMAIN hm) \ {root} :
       /\ hm[q].parent \in (DOMAIN hm) \ {q}
       /\ hm[hm[q].parent].flag = INTERPAGE
       /\ q \in ChildrenOf(hm[q].parent)
  /\ (last.op = "Insert" /\ last.ppg # Nil /\ last.leaf # last.oldRoot) =>
       (last.ppg # last.leaf /\ last.ppg = hm[last.leaf].parent)

\* C19: every Insert call on a tree that has pages returns, along the path locate the leaf, insert
\* in the leaf, then carry the separator up: it ends as a no-op on a stored
\* key, with the cell taken in by the leaf, or with the separator taken in
\* by an ancestor or a new root, and in no other way.
C19_InsertPath ==
  (last.op = "Insert" /\ hm # <<>>) =>
    /\ last.res \in {"noop", "fit", "split"}
    /\ last.res = "split" => hm[root].flag = INTERPAGE

\* C20: no entry is on the free list and in a hash chain at once.
C20_FreeNotResident == FreeList \cap Chained = {}

=============================================================================
